---- MODULE Spec2Model ----
(***************************************************************************)
(* The two echo tool servers of src/src/index-gated.ts: the token-gated    *)
(* server (lines 1-96) and the open server (lines 98-158), and the weather *)
(* example of src/PROMPT.md (lines 253-667).                               *)
(*                                                                         *)
(* JavaScript strings that the code concatenates or that a property        *)
(* searches are sequences of one-character strings, so that a template     *)
(* literal is a concatenation and "contains" is a substring search.        *)
(* JavaScript values are tagged records: [t |-> "undefined"],              *)
(* [t |-> "null"], [t |-> "string", v |-> chars], [t |-> "object", ...].   *)
(* Reading a property an object does not have yields undefined, so an      *)
(* object carries every property the code reads, absent ones as Undefined. *)
(***************************************************************************)
EXTENDS Integers, Sequences, FiniteSets

VARIABLES
    variant,    \* which program runs: "open", "gated" or "weather"
    calls,      \* the call-tool invocations, in order of arrival
    listed,     \* the result of the latest list-tools request, or NotListed
    \* the process and its startup
    phase,      \* how far the startup statements have run
    exit,       \* whether the process has exited, and its exit status
    failure,    \* what failed during startup, or "none"
    env,        \* process.env: the variables createServer reads
    servers,    \* the Server objects createServer has built
    served,     \* the requests dispatched to a Server object
    occupied,   \* the ports other processes listen on
    listenPort, \* the port given to app.listen, once called
    \* the weather example of src/PROMPT.md
    wcall,      \* its call-tool invocation
    fetches     \* the HTTP requests it has sent, in order

echoVars == <<calls, listed>>
startupVars == <<phase, exit, failure, env, servers, served, occupied, listenPort>>
weatherVars == <<wcall, fetches>>

vars == <<variant, echoVars, startupVars, weatherVars>>

\* Number of call-tool invocations in one behaviour (they run concurrently).
MaxCalls == 2

-----------------------------------------------------------------------------
(* String literals of the source *)

NoMessageProvided == <<"N","o"," ","m","e","s","s","a","g","e"," ","p","r","o","v","i","d","e","d">>
AccessDeniedPrefix == <<"A","c","c","e","s","s"," ","d","e","n","i","e","d",":"," ">>
UnknownError == <<"U","n","k","n","o","w","n"," ","e","r","r","o","r">>
MessageFrom == <<"M","e","s","s","a","g","e"," ","f","r","o","m"," ">>
BalanceOpen == <<" ","(","b","a","l","a","n","c","e",":"," ">>
BalanceClose == <<")",":"," ">>

\* minTokenBalance: 1n, the least balance the verifier accepts
minTokenBalance == 1

-----------------------------------------------------------------------------
(* JavaScript values *)

Undefined == [t |-> "undefined"]
Null == [t |-> "null"]
Str(s) == [t |-> "string", v |-> s]

\* ToBoolean: undefined, null, the empty string, 0 and NaN are falsy; a
\* non-empty string, every other number and every object are truthy.
Truthy(x) ==
    CASE x.t = "undefined" -> FALSE
      [] x.t = "null" -> FALSE
      [] x.t = "string" -> x.v # <<>>
      [] x.t = "number" -> x.n # 0
      [] x.t = "NaN" -> FALSE
      [] OTHER -> TRUE

\* a || b
Or(a, b) == IF Truthy(a) THEN a ELSE b

\* obj?.message: undefined when obj is undefined or null, else the property
OptMessage(obj) ==
    IF obj.t \in {"undefined", "null"} THEN Undefined ELSE obj.message

Digits == <<"0","1","2","3","4","5","6","7","8","9">>

\* String(n) of a non-negative bigint: its decimal digits
RECURSIVE BigIntToString(_)
BigIntToString(n) ==
    IF n < 10 THEN <<Digits[n + 1]>>
    ELSE BigIntToString(n \div 10) \o <<Digits[(n % 10) + 1]>>

\* Number.prototype.toString of an integer or NaN
NumberToString(x) ==
    IF x.t = "NaN" THEN <<"N","a","N">>
    ELSE IF x.n < 0 THEN <<"-">> \o BigIntToString(-x.n)
    ELSE BigIntToString(x.n)

\* ${x} in a template literal, for the values the handlers interpolate
ToString(x) ==
    CASE x.t = "string" -> x.v
      [] x.t \in {"number", "NaN"} -> NumberToString(x)
      [] x.t = "undefined" -> <<"u","n","d","e","f","i","n","e","d">>
      [] x.t = "null" -> <<"n","u","l","l">>
      [] x.t = "bigint" -> BigIntToString(x.n)
      [] OTHER -> <<"[","o","b","j","e","c","t"," ","O","b","j","e","c","t","]">>

\* new Error(msg)
NewError(msg) == [t |-> "object", message |-> Str(msg)]

-----------------------------------------------------------------------------
(* The handlers *)

\* Open server, ListToolsRequestSchema handler
OpenListTools ==
    [tools |-> <<
        [name |-> "echo",
         description |-> "Echoes back whatever message you send",
         inputSchema |->
            [type |-> "object",
             properties |-> {"message"},
             required |-> <<"message">>]]
    >>]

\* Mutant of GatedListTools: the signature is not required.
GatedListTools_NoSignature ==
    [tools |-> <<
        [name |-> "echo",
         description |-> "Token-gated echo service - requires 1 token to use",
         inputSchema |->
            [type |-> "object",
             properties |-> {"message", "strawberry_signature"},
             required |-> <<"message">>]]
    >>]

\* Gated server, ListToolsRequestSchema handler
GatedListTools ==
    [tools |-> <<
        [name |-> "echo",
         description |-> "Token-gated echo service - requires 1 token to use",
         inputSchema |->
            [type |-> "object",
             properties |-> {"message", "strawberry_signature"},
             required |-> <<"message", "strawberry_signature">>]]
    >>]

\* Mutant of OpenCallTool: the default replaces every message.
OpenCallTool_AlwaysDefault(request) ==
    [kind |-> "return",
     content |-> <<[type |-> "text", text |-> Str(NoMessageProvided)]>>]

\* Mutant of OpenCallTool: the "|| default" is missing.
OpenCallTool_NoDefault(request) ==
    [kind |-> "return",
     content |-> <<[type |-> "text",
                    text |-> OptMessage(request.params.arguments)]>>]

\* Mutant of OpenCallTool: a request without a signature is refused.
OpenCallTool_SignatureRequired(request) ==
    IF /\ request.params.arguments.t = "object"
       /\ Truthy(request.params.arguments.strawberry_signature)
    THEN [kind |-> "return",
          content |-> <<[type |-> "text",
                         text |-> Or(OptMessage(request.params.arguments),
                                     Str(NoMessageProvided))]>>]
    ELSE [kind |-> "throw", error |-> NewError(AccessDeniedPrefix \o UnknownError)]

\* Open server, CallToolRequestSchema handler: an async function without an
\* await, so it settles in the step that calls it.
OpenCallTool(request) ==
    [kind |-> "return",
     content |-> <<
        [type |-> "text",
         text |-> Or(OptMessage(request.params.arguments),
                     Str(NoMessageProvided))]
     >>]

\* Mutant of GatedReturn: the balance is left out of the text.
GatedReturn_NoBalance(request, result) ==
    [kind |-> "return",
     content |-> <<
        [type |-> "text",
         text |-> Str(MessageFrom
                      \o ToString(result.signerAddress)
                      \o BalanceClose
                      \o ToString(Or(OptMessage(request.params.arguments),
                                     Str(NoMessageProvided))))]
     >>]

\* Mutant of GatedReturn: the "|| default" is missing.
GatedReturn_NoDefault(request, result) ==
    [kind |-> "return",
     content |-> <<
        [type |-> "text",
         text |-> Str(MessageFrom
                      \o ToString(result.signerAddress)
                      \o BalanceOpen
                      \o ToString(result.balance)
                      \o BalanceClose
                      \o ToString(OptMessage(request.params.arguments)))]
     >>]

\* Gated server, the try block after the verifier resolved with result
GatedReturn(request, result) ==
    [kind |-> "return",
     content |-> <<
        [type |-> "text",
         text |-> Str(MessageFrom
                      \o ToString(result.signerAddress)
                      \o BalanceOpen
                      \o ToString(result.balance)
                      \o BalanceClose
                      \o ToString(Or(OptMessage(request.params.arguments),
                                     Str(NoMessageProvided))))]
     >>]

\* Mutant of GatedCatch: the message of the caught error is dropped.
GatedCatch_AlwaysUnknown(error) ==
    [kind |-> "throw", error |-> NewError(AccessDeniedPrefix \o UnknownError)]

\* Gated server, the catch block: the handler's promise rejects
GatedCatch(error) ==
    [kind |-> "throw",
     error |-> NewError(AccessDeniedPrefix
                        \o ToString(Or(OptMessage(error), Str(UnknownError))))]

-----------------------------------------------------------------------------
(* createServer and the startup statements *)

DefaultRpcUrl == <<"h","t","t","p","s",":","/","/","s","e","p","o","l","i","a",".","b","a","s","e",".","o","r","g">>

\* the port the echo servers pass to app.listen
Port == 3000

NaN == [t |-> "NaN"]
Num(n) == [t |-> "number", n |-> n]

DigitValue(c) == (CHOOSE d \in 1..10 : Digits[d] = c) - 1

IsDigit(c) == \E d \in 1..10 : Digits[d] = c

\* the value of the longest prefix of s made of decimal digits, continuing acc
RECURSIVE ParseDigits(_, _)
ParseDigits(s, acc) ==
    IF s = <<>> \/ ~IsDigit(Head(s)) THEN acc
    ELSE ParseDigits(Tail(s), acc * 10 + DigitValue(Head(s)))

\* parseInt(s) of a string without sign or leading white space: the number
\* its leading decimal digits spell, NaN when it starts with no digit
ParseInt(s) ==
    IF s = <<>> \/ ~IsDigit(Head(s)) THEN NaN ELSE Num(ParseDigits(s, 0))

\* new Server({ name: "echo", version: "1.0.0" }, { capabilities: { tools: {} } })
NewServer ==
    [pc |-> "created",
     info |-> [name |-> "echo", version |-> "1.0.0"],
     handlers |-> <<>>,
     rpcUrl |-> Undefined,
     verifierOptions |-> Undefined,
     verifier |-> FALSE]

\* Mutant of ConfigureVerifier: a missing token address is an error.
ConfigureVerifier_Validated(server, e) ==
    IF Truthy(e.LOCALHOST_TOKEN)
    THEN [server EXCEPT
            !.pc = "configured",
            !.rpcUrl = Or(e.RPC_URL, Str(DefaultRpcUrl)),
            !.verifierOptions =
                [t |-> "object",
                 domain |-> [name |-> "Strawberry.fun", version |-> "1",
                             chainId |-> ParseInt(ToString(
                                 Or(e.STRAWBERRY_NETWORK_ID, Str(<<"1">>))))],
                 tokenAddress |-> e.LOCALHOST_TOKEN,
                 minTokenBalance |-> minTokenBalance],
            !.verifier = TRUE]
    ELSE [server EXCEPT !.pc = "threw"]

\* Gated createServer, from the RPC url to createTokenGateVerifier: nothing
\* here looks at whether a variable is set beyond the two || defaults.
ConfigureVerifier(server, e) ==
    [server EXCEPT
        !.pc = "configured",
        !.rpcUrl = Or(e.RPC_URL, Str(DefaultRpcUrl)),
        !.verifierOptions =
            [t |-> "object",
             domain |-> [name |-> "Strawberry.fun", version |-> "1",
                         chainId |-> ParseInt(ToString(
                             Or(e.STRAWBERRY_NETWORK_ID, Str(<<"1">>))))],
             tokenAddress |-> e.LOCALHOST_TOKEN,
             minTokenBalance |-> minTokenBalance],
        !.verifier = TRUE]

\* server.setRequestHandler(ListToolsRequestSchema, ...)
RegisterListTools(server) ==
    [server EXCEPT !.pc = "listRegistered",
                   !.handlers = Append(@, "tools/list")]

\* Mutant of RegisterCallTool: the call-tool handler is not registered.
RegisterCallTool_Missing(server) ==
    [server EXCEPT !.pc = "callRegistered"]

\* server.setRequestHandler(CallToolRequestSchema, ...)
RegisterCallTool(server) ==
    [server EXCEPT !.pc = "callRegistered",
                   !.handlers = Append(@, "tools/call")]

\* return server
ReturnServer(server) == [server EXCEPT !.pc = "returned"]

\* createServer() run from its first statement to its return
CreateServer(v, e) ==
    ReturnServer(RegisterCallTool(RegisterListTools(
        IF v = "gated" THEN ConfigureVerifier(NewServer, e) ELSE NewServer)))

Running == [exited |-> FALSE]
Exited(code) == [exited |-> TRUE, code |-> code]

\* process.exit(1) in the handler of main().catch
MainCatchExit == Exited(1)

\* an exception no code catches: Node reports it and exits with status 1
UncaughtExit == Exited(1)

-----------------------------------------------------------------------------
(* The weather example of src/PROMPT.md, lines 253-667 *)

NWS_API_BASE == <<"h","t","t","p","s",":","/","/","a","p","i",".","w","e","a","t","h","e","r",".","g","o","v">>
NOMINATIM_API_BASE == <<"h","t","t","p","s",":","/","/","n","o","m","i","n","a","t","i","m",".","o","p","e","n","s","t","r","e","e","t","m","a","p",".","o","r","g">>

\* x.toFixed(4) of an integer or NaN
ToFixed4(x) ==
    IF x.t = "NaN" THEN <<"N","a","N">> ELSE NumberToString(x) \o <<".","0","0","0","0">>

\* parseFloat(s) of a string that is an optional "-" and decimal digits, the
\* form of the coordinates in the geocoder results below; NaN for a string
\* that starts with neither, and for a value that is no string
ParseFloat(x) ==
    IF x.t # "string" \/ x.v = <<>> THEN NaN
    ELSE IF Head(x.v) = "-"
         THEN (IF Tail(x.v) = <<>> \/ ~IsDigit(Head(Tail(x.v))) THEN NaN
               ELSE Num(-ParseDigits(Tail(x.v), 0)))
         ELSE ParseInt(x.v)

\* encodeURIComponent(s): letters, digits and - _ . ! ~ * ' ( ) are kept;
\* of the other characters the inputs below hold the space and the comma
EncodeChar(c) ==
    CASE c = " " -> <<"%","2","0">>
      [] c = "," -> <<"%","2","C">>
      [] OTHER -> <<c>>

RECURSIVE EncodeURIComponent(_)
EncodeURIComponent(s) ==
    IF s = <<>> THEN <<>> ELSE EncodeChar(Head(s)) \o EncodeURIComponent(Tail(s))

\* obj.key of an object or an array: undefined when it has no such property
Get(obj, key) ==
    IF obj.t = "object" /\ key \in DOMAIN obj THEN obj[key] ELSE Undefined

\* { content: [ { type: "text", text } ] }
TextResult(text) == [content |-> <<[type |-> "text", text |-> Str(text)]>>]

\* a function that returns value, a function that throws error, and a
\* function suspended in fetch(url)
Returns(value) == [kind |-> "return", value |-> value]
Throws(error) == [kind |-> "throw", error |-> error]
Fetches(api, url) == [kind |-> "fetch", api |-> api, url |-> url]

\* one issue of a ZodError
Issue(path, message) == [path |-> path, message |-> message]
ZodError(issues) == [t |-> "object", zod |-> TRUE, errors |-> issues]
Parsed(value) == [ok |-> TRUE, value |-> value]
ParseFails(issues) == [ok |-> FALSE, error |-> ZodError(issues)]

\* typeof, as zod names the type it received
ReceivedType(x) ==
    CASE x.t = "string" -> <<"s","t","r","i","n","g">>
      [] x.t = "number" -> <<"n","u","m","b","e","r">>
      [] x.t = "NaN" -> <<"n","a","n">>
      [] x.t = "null" -> <<"n","u","l","l">>
      [] x.t = "undefined" -> <<"u","n","d","e","f","i","n","e","d">>
      [] OTHER -> <<"o","b","j","e","c","t">>

\* z.number().min(lo).max(hi) on the property key
NumberIssues(key, x, lo, hi) ==
    CASE x.t = "undefined" -> <<Issue(key, <<"R","e","q","u","i","r","e","d">>)>>
      [] x.t # "number" ->
            <<Issue(key, <<"E","x","p","e","c","t","e","d"," ","n","u","m","b","e","r",","," ","r","e","c","e","i","v","e","d"," ">> \o ReceivedType(x))>>
      [] x.t = "number" /\ x.n < lo ->
            <<Issue(key, <<"N","u","m","b","e","r"," ","m","u","s","t"," ","b","e"," ","g","r","e","a","t","e","r"," ","t","h","a","n"," ","o","r"," ","e","q","u","a","l"," ","t","o"," ">>
                         \o NumberToString(Num(lo)))>>
      [] x.t = "number" /\ x.n > hi ->
            <<Issue(key, <<"N","u","m","b","e","r"," ","m","u","s","t"," ","b","e"," ","l","e","s","s"," ","t","h","a","n"," ","o","r"," ","e","q","u","a","l"," ","t","o"," ">>
                         \o NumberToString(Num(hi)))>>
      [] OTHER -> <<>>

\* z.string().min(1) on the property key
StringIssues(key, x) ==
    CASE x.t = "undefined" -> <<Issue(key, <<"R","e","q","u","i","r","e","d">>)>>
      [] x.t # "string" ->
            <<Issue(key, <<"E","x","p","e","c","t","e","d"," ","s","t","r","i","n","g",","," ","r","e","c","e","i","v","e","d"," ">> \o ReceivedType(x))>>
      [] x.t = "string" /\ x.v = <<>> ->
            <<Issue(key, <<"S","t","r","i","n","g"," ","m","u","s","t"," ","c","o","n","t","a","i","n"," ","a","t"," ","l","e","a","s","t"," ","1"," ","c","h","a","r","a","c","t","e","r","(","s",")">>)>>
      [] OTHER -> <<>>

\* Mutant of ForecastArgumentsSchema: the bounds of the latitude are not
\* checked.
ForecastArgumentsSchema_NoRange(args) ==
    IF args.t # "object" THEN ParseFails(<<Issue(<<>>, <<"R","e","q","u","i","r","e","d">>)>>)
    ELSE LET issues == NumberIssues(<<"l","a","t","i","t","u","d","e">>, args.latitude, -1000000, 1000000)
                       \o NumberIssues(<<"l","o","n","g","i","t","u","d","e">>, args.longitude, -180, 180)
         IN  IF issues = <<>>
             THEN Parsed([latitude |-> args.latitude, longitude |-> args.longitude])
             ELSE ParseFails(issues)

\* ForecastArgumentsSchema.parse(args)
ForecastArgumentsSchema(args) ==
    IF args.t # "object" THEN ParseFails(<<Issue(<<>>, <<"R","e","q","u","i","r","e","d">>)>>)
    ELSE LET issues == NumberIssues(<<"l","a","t","i","t","u","d","e">>, args.latitude, -90, 90)
                       \o NumberIssues(<<"l","o","n","g","i","t","u","d","e">>, args.longitude, -180, 180)
         IN  IF issues = <<>>
             THEN Parsed([latitude |-> args.latitude, longitude |-> args.longitude])
             ELSE ParseFails(issues)

\* LocationArgumentsSchema.parse(args)
LocationArgumentsSchema(args) ==
    IF args.t # "object" THEN ParseFails(<<Issue(<<>>, <<"R","e","q","u","i","r","e","d">>)>>)
    ELSE LET issues == StringIssues(<<"l","o","c","a","t","i","o","n">>, args.location)
         IN  IF issues = <<>>
             THEN Parsed([location |-> args.location])
             ELSE ParseFails(issues)

\* error.errors.map((e) => `${e.path.join(".")}: ${e.message}`).join(", ")
RECURSIVE JoinIssues(_)
JoinIssues(issues) ==
    IF issues = <<>> THEN <<>>
    ELSE Head(issues).path \o <<":"," ">> \o Head(issues).message
         \o (IF Tail(issues) = <<>> THEN <<>> ELSE <<","," ">> \o JoinIssues(Tail(issues)))

\* Mutant of HandlerCatch: every error is thrown on to the caller.
HandlerCatch_Rethrow(error) == Throws(error)

\* the catch block of the call-tool handler; everything thrown in the try
\* block is an Error, with a message
HandlerCatch(error) ==
    IF error.zod
    THEN Returns(TextResult(<<"I","n","v","a","l","i","d"," ","a","r","g","u","m","e","n","t","s",":"," ">> \o JoinIssues(error.errors)))
    ELSE Returns(TextResult(<<"E","r","r","o","r",":"," ">> \o ToString(error.message)))

\* new Error(message), which is no ZodError
PlainError(message) == [t |-> "object", zod |-> FALSE, message |-> Str(message)]

\* the response of fetch: a rejected promise, or a response with a status
\* whose body is JSON or not
NetworkError == [t |-> "reject"]
HttpResponse(status, json) ==
    [t |-> "response", ok |-> status \in 200..299, status |-> status, json |-> json]
InvalidJson == [t |-> "invalid"]
Array(items) == [t |-> "array", items |-> items]

\* Mutant of MakeNWSRequest: the HTTP error is thrown to the caller.
MakeNWSRequest_Uncaught(response) ==
    IF response.t = "reject" THEN Throws(PlainError(<<"f","e","t","c","h"," ","f","a","i","l","e","d">>))
    ELSE IF ~response.ok
    THEN Throws(PlainError(<<"H","T","T","P"," ","e","r","r","o","r","!"," ","s","t","a","t","u","s",":"," ">> \o NumberToString(Num(response.status))))
    ELSE IF response.json.t = "invalid" THEN Returns(Null)
    ELSE Returns(response.json)

\* makeNWSRequest after fetch settled: everything thrown in the try block
\* (the rejection of fetch, the HTTP error, the rejection of json()) is caught
\* and null is returned
MakeNWSRequest(response) ==
    IF response.t = "reject" THEN Returns(Null)
    ELSE IF ~response.ok THEN Returns(Null)
    ELSE IF response.json.t = "invalid" THEN Returns(Null)
    ELSE Returns(response.json)

\* geocodeLocation after fetch settled: results[0] || null, and null for
\* everything thrown in the try block (results[0] of a body that is null
\* included)
GeocodeLocation(response) ==
    IF response.t = "reject" THEN Returns(Null)
    ELSE IF ~response.ok THEN Returns(Null)
    ELSE IF response.json.t # "array" THEN Returns(Null)
    ELSE IF response.json.items = <<>> THEN Returns(Null)
    ELSE Returns(Or(response.json.items[1], Null))

\* geocodeLocation up to its fetch
GeocodeUrl(location) ==
    NOMINATIM_API_BASE \o <<"/","s","e","a","r","c","h","?","q","=">> \o EncodeURIComponent(location)
        \o <<"&","f","o","r","m","a","t","=","j","s","o","n","&","l","i","m","i","t","=","1">>

\* getForecastForCoordinates up to its first fetch
PointsUrl(latitude, longitude) ==
    NWS_API_BASE \o <<"/","p","o","i","n","t","s","/">> \o ToFixed4(latitude) \o <<",">> \o ToFixed4(longitude)

\* obj?.key
OptGet(obj, key) ==
    IF obj.t \in {"undefined", "null"} THEN Undefined ELSE Get(obj, key)

FailedGridPoint(latitude, longitude) ==
    <<"F","a","i","l","e","d"," ","t","o"," ","r","e","t","r","i","e","v","e"," ","g","r","i","d"," ","p","o","i","n","t"," ","d","a","t","a"," ","f","o","r"," ","c","o","o","r","d","i","n","a","t","e","s",":"," ">>
        \o NumberToString(latitude) \o <<","," ">> \o NumberToString(longitude)
        \o <<"."," ","T","h","i","s"," ","l","o","c","a","t","i","o","n"," ","m","a","y"," ","n","o","t"," ","b","e"," ","s","u","p","p","o","r","t","e","d"," ","b","y"," ","t","h","e"," ","N","W","S"," ","A","P","I"," ","(","o","n","l","y"," ","U","S"," ","l","o","c","a","t","i","o","n","s"," ","a","r","e"," ","s","u","p","p","o","r","t","e","d",")",".">>
FailedForecastUrl == <<"F","a","i","l","e","d"," ","t","o"," ","g","e","t"," ","f","o","r","e","c","a","s","t"," ","U","R","L"," ","f","r","o","m"," ","g","r","i","d"," ","p","o","i","n","t"," ","d","a","t","a">>
FailedForecast == <<"F","a","i","l","e","d"," ","t","o"," ","r","e","t","r","i","e","v","e"," ","f","o","r","e","c","a","s","t"," ","d","a","t","a">>
NoPeriods == <<"N","o"," ","f","o","r","e","c","a","s","t"," ","p","e","r","i","o","d","s"," ","a","v","a","i","l","a","b","l","e">>

\* getForecastForCoordinates from the grid point data to the forecast fetch
AfterPoints(latitude, longitude, pointsData) ==
    IF ~Truthy(pointsData)
    THEN Returns(TextResult(FailedGridPoint(latitude, longitude)))
    ELSE LET forecastUrl == OptGet(Get(pointsData, "properties"), "forecast")
         IN  IF ~Truthy(forecastUrl)
             THEN Returns(TextResult(FailedForecastUrl))
             ELSE Fetches("forecast", ToString(forecastUrl))

\* the lines of one period, joined by "\n"
FormatPeriod(period) ==
    ToString(Or(Get(period, "name"), Str(<<"U","n","k","n","o","w","n">>))) \o <<":">> \o <<"\n">>
    \o <<"T","e","m","p","e","r","a","t","u","r","e",":"," ">> \o ToString(Or(Get(period, "temperature"), Str(<<"U","n","k","n","o","w","n">>)))
    \o <<"Â","°">> \o ToString(Or(Get(period, "temperatureUnit"), Str(<<"F">>))) \o <<"\n">>
    \o <<"W","i","n","d",":"," ">> \o ToString(Or(Get(period, "windSpeed"), Str(<<"U","n","k","n","o","w","n">>))) \o <<" ">>
    \o ToString(Or(Get(period, "windDirection"), Str(<<>>))) \o <<"\n">>
    \o ToString(Or(Get(period, "shortForecast"), Str(<<"N","o"," ","f","o","r","e","c","a","s","t"," ","a","v","a","i","l","a","b","l","e">>))) \o <<"\n">>
    \o <<"-","-","-">>

\* formattedForecast.join("\n")
RECURSIVE JoinPeriods(_)
JoinPeriods(periods) ==
    IF periods = <<>> THEN <<>>
    ELSE FormatPeriod(Head(periods))
         \o (IF Tail(periods) = <<>> THEN <<>> ELSE <<"\n">> \o JoinPeriods(Tail(periods)))

\* the TypeError of reading period.name when period is null
NullPeriod == <<"C","a","n","n","o","t"," ","r","e","a","d"," ","p","r","o","p","e","r","t","i","e","s"," ","o","f"," ","n","u","l","l"," ","(","r","e","a","d","i","n","g"," ","'","n","a","m","e","'",")">>

\* getForecastForCoordinates from the forecast data to its return
AfterForecast(latitude, longitude, forecastData) ==
    IF ~Truthy(forecastData)
    THEN Returns(TextResult(FailedForecast))
    ELSE LET periods == Or(OptGet(Get(forecastData, "properties"), "periods"),
                           Array(<<>>))
         IN  IF periods.items = <<>>
             THEN Returns(TextResult(NoPeriods))
             ELSE IF \E k \in 1..Len(periods.items) : periods.items[k].t = "null"
             THEN Throws(PlainError(NullPeriod))
             ELSE Returns(TextResult(
                    <<"F","o","r","e","c","a","s","t"," ","f","o","r"," ">> \o NumberToString(latitude) \o <<","," ">>
                    \o NumberToString(longitude) \o <<":">> \o <<"\n", "\n">>
                    \o JoinPeriods(periods.items)))

CouldNotFind(location) ==
    <<"C","o","u","l","d"," ","n","o","t"," ","f","i","n","d"," ","c","o","o","r","d","i","n","a","t","e","s"," ","f","o","r"," ","l","o","c","a","t","i","o","n",":"," ">> \o ToString(location)

\* Mutant of WithLocation: the display name is not added.
WithLocation_NoPrefix(geocodingResult, forecast) == forecast

\* forecast.content[0].text prefixed with the resolved location name, when
\* there is a text
WithLocation(geocodingResult, forecast) ==
    IF Len(forecast.content) >= 1 /\ Truthy(forecast.content[1].text)
    THEN [forecast EXCEPT !.content[1].text =
            Str(<<"L","o","c","a","t","i","o","n",":"," ">> \o ToString(Get(geocodingResult, "display_name"))
                \o <<"\n", "\n">> \o ToString(forecast.content[1].text))]
    ELSE forecast

-----------------------------------------------------------------------------
(* Inputs *)

Hello == <<"h","e","l","l","o">>
Hi == <<"h","i">>
InvalidSignature == <<"I","n","v","a","l","i","d"," ","s","i","g","n","a","t","u","r","e">>
InsufficientBalance == <<"I","n","s","u","f","f","i","c","i","e","n","t"," ","t","o","k","e","n"," ","b","a","l","a","n","c","e">>
Addr1 == <<"0","x","A","1">>
Addr2 == <<"0","x","B","2">>
Sig == <<"0","x","5","1","9">>

\* values of arguments.message; Undefined is a request without that field
Messages == {Undefined, Null, Str(<<>>), Str(Hello), Str(Hi)}

\* request.params.arguments with the two properties the tool schema names
Args(m, s) == [t |-> "object", message |-> m, strawberry_signature |-> s]

\* arguments absent, signed arguments with each message value, and unsigned
\* arguments
Arguments ==
    {Undefined} \cup {Args(m, Str(Sig)) : m \in Messages}
                \cup {Args(Str(Hello), Undefined)}

CallToolRequest(n, a) ==
    [method |-> "tools/call", params |-> [name |-> n, arguments |-> a]]

\* requests for the declared tool, and for a tool name the server does not
\* declare
Requests ==
    {CallToolRequest("echo", a) : a \in Arguments} \cup
    {CallToolRequest("reverse", a) : a \in {Undefined, Args(Str(Hello), Str(Sig))}}

\* what the verifier resolves with
VerifierResults ==
    {[signerAddress |-> Str(Addr1), balance |-> [t |-> "bigint", n |-> minTokenBalance]],
     [signerAddress |-> Str(Addr2), balance |-> [t |-> "bigint", n |-> 120]]}

\* what the verifier rejects with: an Error with a message, an Error with an
\* empty message, or a thrown value that is no object
VerifierErrors ==
    {NewError(InvalidSignature), NewError(InsufficientBalance),
     NewError(<<>>), Undefined}


\* process.env as createServer reads it; Undefined is a variable not set
Env(rpc, net, token) ==
    [RPC_URL |-> rpc, STRAWBERRY_NETWORK_ID |-> net, LOCALHOST_TOKEN |-> token]

RpcUrl == <<"h","t","t","p",":","/","/","r","p","c">>
BaseChainId == <<"8","4","5","3">>
NotANumber == <<"b","a","s","e">>
TokenAddress == <<"0","x","T","0">>

Envs ==
    {Env(rpc, net, token) :
        rpc \in {Undefined, Str(RpcUrl)},
        net \in {Undefined, Str(BaseChainId), Str(NotANumber)},
        token \in {Undefined, Str(TokenAddress)}}

\* every variable set
ConfiguredEnv == Env(Str(RpcUrl), Str(BaseChainId), Str(TokenAddress))

\* ports other processes hold when the server starts
OccupiedSets == {{}, {Port}, {Port + 1}}

\* Number of Server objects the wrapper asks createServer for.
MaxServers == 2

\* Number of requests dispatched in one behaviour of the startup model.
MaxServed == 2

-----------------------------------------------------------------------------
(* The state machine *)

NotListed == [tools |-> <<>>, none |-> TRUE]
Pending == [kind |-> "pending"]
NotVerified == [kind |-> "none"]

\* no call-tool request has reached the weather example
Idle == [pc |-> "idle"]

\* the weather example has not been called
NoWeather ==
    /\ wcall = Idle
    /\ fetches = <<>>

\* the startup statements have run and the server listens on its port
Serving ==
    /\ phase = "listening"
    /\ exit = Running
    /\ failure = "none"
    /\ env = ConfiguredEnv
    /\ servers = <<CreateServer(variant, env)>>
    /\ served = <<>>
    /\ occupied = {}
    /\ listenPort = <<Port>>

Init ==
    /\ variant \in {"open", "gated"}
    /\ calls = <<>>
    /\ listed = NotListed
    /\ Serving
    /\ NoWeather

\* A list-tools request is dispatched to the registered handler.
ListTools ==
    /\ listed' = (IF variant = "open" THEN OpenListTools ELSE GatedListTools)
    /\ UNCHANGED <<variant, calls, startupVars, weatherVars>>

\* Open server: a call-tool request is dispatched and answered.
CallToolOpen(request) ==
    /\ variant = "open"
    /\ Len(calls) < MaxCalls
    /\ calls' = Append(calls,
            [request |-> request, pc |-> "done", verified |-> NotVerified,
             verifierCalls |-> <<>>,
             outcome |-> OpenCallTool(request)])
    /\ UNCHANGED <<variant, listed, startupVars, weatherVars>>

\* Gated server: a call-tool request is dispatched; the handler calls
\* verifier(request) and is suspended at the await.
CallToolGated(request) ==
    /\ variant = "gated"
    /\ Len(calls) < MaxCalls
    /\ calls' = Append(calls,
            [request |-> request, pc |-> "await", verified |-> NotVerified,
             verifierCalls |-> <<request>>,
             outcome |-> Pending])
    /\ UNCHANGED <<variant, listed, startupVars, weatherVars>>

\* Mutant of VerifierResolves: the response is built from the request of
\* the first invocation, as if the request were kept in a shared variable.
VerifierResolves_Shared(i, result) ==
    /\ i \in 1..Len(calls)
    /\ calls[i].pc = "await"
    /\ calls' = [calls EXCEPT ![i] =
            [@ EXCEPT !.pc = "done",
                      !.verified = [kind |-> "resolved", result |-> result],
                      !.outcome = GatedReturn(calls[1].request, result)]]
    /\ UNCHANGED <<variant, listed, startupVars, weatherVars>>

\* The verifier resolves: the handler resumes in the try block and returns.
VerifierResolves(i, result) ==
    /\ i \in 1..Len(calls)
    /\ calls[i].pc = "await"
    /\ calls' = [calls EXCEPT ![i] =
            [@ EXCEPT !.pc = "done",
                      !.verified = [kind |-> "resolved", result |-> result],
                      !.outcome = GatedReturn(calls[i].request, result)]]
    /\ UNCHANGED <<variant, listed, startupVars, weatherVars>>

\* Mutant of VerifierRejects: the rejection is swallowed and the handler goes
\* on to build the echo response.
VerifierRejects_Swallowed(i, error) ==
    /\ i \in 1..Len(calls)
    /\ calls[i].pc = "await"
    /\ calls' = [calls EXCEPT ![i] =
            [@ EXCEPT !.pc = "done",
                      !.verified = [kind |-> "rejected", error |-> error],
                      !.outcome = GatedReturn(calls[i].request,
                            [signerAddress |-> Undefined, balance |-> Undefined])]]
    /\ UNCHANGED <<variant, listed, startupVars, weatherVars>>

\* Mutant of VerifierRejects: a rejected verification is tried again.
VerifierRejects_Retry(i, error) ==
    /\ i \in 1..Len(calls)
    /\ calls[i].pc = "await"
    /\ calls' = [calls EXCEPT ![i] =
            [@ EXCEPT !.verifierCalls = Append(@, calls[i].request)]]
    /\ UNCHANGED <<variant, listed, startupVars, weatherVars>>

\* The verifier rejects: the handler resumes in the catch block and throws.
VerifierRejects(i, error) ==
    /\ i \in 1..Len(calls)
    /\ calls[i].pc = "await"
    /\ calls' = [calls EXCEPT ![i] =
            [@ EXCEPT !.pc = "done",
                      !.verified = [kind |-> "rejected", error |-> error],
                      !.outcome = GatedCatch(error)]]
    /\ UNCHANGED <<variant, listed, startupVars, weatherVars>>

Next ==
    \/ ListTools
    \/ \E request \in Requests : CallToolOpen(request)
    \/ \E request \in Requests : CallToolGated(request)
    \/ \E i \in 1..MaxCalls, result \in VerifierResults : VerifierResolves(i, result)
    \/ \E i \in 1..MaxCalls, error \in VerifierErrors : VerifierRejects(i, error)

Spec == Init /\ [][Next]_vars

-----------------------------------------------------------------------------
(* Startup: the statements after createServer, and the wrapper's calls of   *)
(* createServer.  The source hands createServer to strawberry() and never   *)
(* calls it itself: the wrapper may call it while strawberry() or connect() *)
(* runs, or when a client connects to the listening server.                 *)

InitStartup ==
    /\ variant \in {"open", "gated"}
    /\ env \in (IF variant = "gated" THEN Envs ELSE {Env(Undefined, Undefined, Undefined)})
    /\ occupied \in OccupiedSets
    /\ phase = "start"
    /\ exit = Running
    /\ failure = "none"
    /\ servers = <<>>
    /\ served = <<>>
    /\ listenPort = <<>>
    /\ calls = <<>>
    /\ listed = NotListed
    /\ NoWeather

\* createServer is running: it is synchronous, so nothing else runs until it
\* returns
Building == servers # <<>> /\ servers[Len(servers)].pc # "returned"

\* const app = strawberry(createServer)
Wrap ==
    /\ phase = "start"
    /\ phase' = "wrapped"
    /\ UNCHANGED <<variant, echoVars, exit, failure, env, servers, served, occupied, listenPort, weatherVars>>

\* app.connect()
Connect ==
    /\ phase = "wrapped"
    /\ ~Building
    /\ phase' = "connected"
    /\ UNCHANGED <<variant, echoVars, exit, failure, env, servers, served, occupied, listenPort, weatherVars>>

\* app.listen(3000, callback)
Listen ==
    /\ phase = "connected"
    /\ ~Building
    /\ phase' = "binding"
    /\ listenPort' = <<Port>>
    /\ UNCHANGED <<variant, echoVars, exit, failure, env, servers, served, occupied, weatherVars>>

\* the port is bound and the callback logs that the server runs
Bound ==
    /\ phase = "binding"
    /\ ~Building
    /\ listenPort[1] \notin occupied
    /\ phase' = "listening"
    /\ UNCHANGED <<variant, echoVars, exit, failure, env, servers, served, occupied, listenPort, weatherVars>>

\* the statement a startup exception comes from, by the phase it is thrown in
FailedStatement ==
    CASE phase = "start" -> "strawberry"
      [] phase = "wrapped" -> "connect"
      [] phase = "connected" -> "listen"

\* Mutant of ExitOnThrow: the handler of main().catch only logs.
ExitOnThrow_LogOnly(v, statement) ==
    IF v = "open" /\ statement = "listen" THEN Running ELSE UncaughtExit

\* What ends the process when a startup statement throws: in the open
\* server app.listen is called in main(), whose rejection is caught and
\* answered with process.exit(1); every other statement is top-level code.
ExitOnThrow(v, statement) ==
    IF v = "open" /\ statement = "listen" THEN MainCatchExit ELSE UncaughtExit

\* strawberry(createServer), app.connect() or app.listen() throws
StartupThrows ==
    /\ phase \in {"start", "wrapped", "connected"}
    /\ ~Building
    /\ failure' = FailedStatement
    /\ exit' = ExitOnThrow(variant, FailedStatement)
    /\ phase' = IF exit'.exited THEN "terminated" ELSE phase
    /\ UNCHANGED <<variant, echoVars, env, servers, served, occupied, listenPort, weatherVars>>

\* the port cannot be bound: the listening socket emits "error", which no
\* code of the repository handles
BindFails ==
    /\ phase = "binding"
    /\ ~Building
    /\ listenPort[1] \in occupied
    /\ failure' = "bind"
    /\ exit' = UncaughtExit
    /\ phase' = "terminated"
    /\ UNCHANGED <<variant, echoVars, env, servers, served, occupied, listenPort, weatherVars>>

\* the wrapper calls createServer(): new Server(...)
FactoryCalled ==
    /\ phase \in {"wrapped", "connected", "listening"}
    /\ ~Building
    /\ Len(servers) < MaxServers
    /\ servers' = Append(servers, NewServer)
    /\ UNCHANGED <<variant, echoVars, phase, exit, failure, env, served, occupied, listenPort, weatherVars>>

\* the statement of createServer that runs next on a Server object
CreateServerStep(server) ==
    CASE server.pc = "created" /\ variant = "gated" -> ConfigureVerifier(server, env)
      [] server.pc = "created" /\ variant # "gated" -> RegisterListTools(server)
      [] server.pc = "configured" -> RegisterListTools(server)
      [] server.pc = "listRegistered" -> RegisterCallTool(server)
      [] server.pc = "callRegistered" -> ReturnServer(server)

\* createServer runs its next statement
CreateServerRuns ==
    /\ Building
    /\ servers[Len(servers)].pc \in {"created", "configured", "listRegistered", "callRegistered"}
    /\ servers' = [servers EXCEPT ![Len(servers)] = CreateServerStep(@)]
    /\ UNCHANGED <<variant, echoVars, phase, exit, failure, env, served, occupied, listenPort, weatherVars>>

\* a client's request reaches a Server object the wrapper holds
Dispatch(i, method) ==
    /\ phase = "listening"
    /\ ~Building
    /\ i \in 1..Len(servers)
    /\ servers[i].pc = "returned"
    /\ Len(served) < MaxServed
    /\ served' = Append(served,
            [server |-> i, method |-> method,
             handled |-> \E k \in 1..Len(servers[i].handlers) :
                            servers[i].handlers[k] = method])
    /\ UNCHANGED <<variant, echoVars, phase, exit, failure, env, servers, occupied, listenPort, weatherVars>>

NextStartup ==
    \/ Wrap
    \/ Connect
    \/ Listen
    \/ Bound
    \/ StartupThrows
    \/ BindFails
    \/ FactoryCalled
    \/ CreateServerRuns
    \/ \E i \in 1..MaxServers, method \in {"tools/list", "tools/call"} : Dispatch(i, method)

SpecStartup == InitStartup /\ [][NextStartup]_vars

-----------------------------------------------------------------------------
(* The weather example: its call-tool handler as a state machine.  The      *)
(* handler runs to its first fetch, and from each settled fetch to the next *)
(* fetch or to its end.  The two remote services are the environment: every *)
(* fetch may be answered by every response below.                           *)

GetForecast == <<"g","e","t","-","f","o","r","e","c","a","s","t">>
GetForecastByName == <<"g","e","t","-","f","o","r","e","c","a","s","t","-","b","y","-","n","a","m","e">>
GetAlerts == <<"g","e","t","-","a","l","e","r","t","s">>
ToolNames == {GetForecast, GetForecastByName, GetAlerts}

\* request.params.arguments of the weather tools; a property the caller left
\* out is Undefined
WeatherArgs(latitude, longitude, location) ==
    [t |-> "object", latitude |-> latitude, longitude |-> longitude,
     location |-> location]

Boston == <<"B","o","s","t","o","n">>
NewYork == <<"N","e","w"," ","Y","o","r","k",","," ","N","Y">>

CoordinateArguments ==
    {WeatherArgs(Num(c[1]), Num(c[2]), Undefined) :
        c \in {<<42, -71>>, <<0, 0>>, <<90, 180>>, <<-90, -180>>,
               <<91, -71>>, <<-91, -71>>, <<42, 181>>, <<42, -181>>,
               <<91, 181>>}}
    \cup {WeatherArgs(Str(<<"4","2">>), Num(-71), Undefined),
          WeatherArgs(Num(42), Null, Undefined),
          WeatherArgs(Undefined, Num(-71), Undefined),
          WeatherArgs(Num(42), Undefined, Undefined)}

LocationArguments ==
    {WeatherArgs(Undefined, Undefined, l) :
        l \in {Str(Boston), Str(NewYork), Str(<<>>), Num(5), Null}}

WeatherArguments ==
    CoordinateArguments \cup LocationArguments
        \cup {WeatherArgs(Undefined, Undefined, Undefined), Undefined}

WeatherRequest(name, args) ==
    [method |-> "tools/call", params |-> [name |-> name, arguments |-> args]]

WeatherRequests ==
    {WeatherRequest(n, a) : n \in ToolNames, a \in WeatherArguments}

\* JSON bodies of the geocoder
Place(lat, lon, display_name) ==
    [t |-> "object", lat |-> lat, lon |-> lon, display_name |-> display_name]
BostonPlace == Place(Str(<<"4","2">>), Str(<<"-","7","1">>), Str(<<"B","o","s","t","o","n",","," ","M","a","s","s","a","c","h","u","s","e","t","t","s">>))
NamelessPlace == [t |-> "object", lat |-> Str(<<"4","2">>)]

\* JSON bodies of the weather service
ForecastUrl == <<"h","t","t","p","s",":","/","/","a","p","i",".","w","e","a","t","h","e","r",".","g","o","v","/","g","r","i","d","p","o","i","n","t","s","/","B","O","X","/","7","1",",","9","0","/","f","o","r","e","c","a","s","t">>
Properties(props) == [t |-> "object", properties |-> props]
PointsBody == Properties([t |-> "object", forecast |-> Str(ForecastUrl)])
Tonight ==
    [t |-> "object", name |-> Str(<<"T","o","n","i","g","h","t">>), temperature |-> Num(54),
     temperatureUnit |-> Str(<<"F">>), windSpeed |-> Str(<<"5"," ","m","p","h">>),
     windDirection |-> Str(<<"S","W">>), shortForecast |-> Str(<<"C","l","e","a","r">>)]
Sparse == [t |-> "object", temperature |-> Num(0)]
ForecastBody(periods) == Properties([t |-> "object", periods |-> Array(periods)])

JsonBodies ==
    {InvalidJson, Null, Array(<<>>), Array(<<BostonPlace>>),
     Array(<<NamelessPlace>>), Array(<<Null>>),
     [t |-> "object"], Properties([t |-> "object"]), PointsBody,
     ForecastBody(<<>>), ForecastBody(<<Tonight>>),
     ForecastBody(<<Sparse, Tonight>>), ForecastBody(<<Null>>)}

Responses ==
    {NetworkError, HttpResponse(500, InvalidJson), HttpResponse(404, PointsBody),
     HttpResponse(503, Array(<<BostonPlace>>))}
    \cup {HttpResponse(200, b) : b \in JsonBodies}

\* the invocation after the handler ran to step: a fetch it awaits, or its
\* end
Invocation(request, locals, step) ==
    [pc |-> IF step.kind = "fetch" THEN "fetch" ELSE "done",
     request |-> request, locals |-> locals, step |-> step]

\* a fetch the handler sent, and its response once it settled
Sent(step) == [api |-> step.api, url |-> step.url, settled |-> FALSE]
SettledWith(fetch, response) ==
    [api |-> fetch.api, url |-> fetch.url, settled |-> TRUE, response |-> response]

\* fetches after the handler ran to step
AfterStep(sent, step) ==
    IF step.kind = "fetch" THEN Append(sent, Sent(step)) ELSE sent

\* the constants of the handler, Undefined until their declaration has run
NoLocals ==
    [location |-> Undefined, geocodingResult |-> Undefined,
     latitude |-> Undefined, longitude |-> Undefined, forecast |-> Undefined]

\* try { ... } catch (error) { ... } around a step of the handler
Try(step) == IF step.kind = "throw" THEN HandlerCatch(step.error) ELSE step

\* the handler from its start to its first await
HandlerStart(request) ==
    LET name == request.params.name
        args == request.params.arguments
    IN  IF name = GetForecast
        THEN LET parsed == ForecastArgumentsSchema(args)
             IN  IF ~parsed.ok
                 THEN [locals |-> NoLocals, step |-> Try(Throws(parsed.error))]
                 ELSE [locals |-> [NoLocals EXCEPT !.latitude = parsed.value.latitude,
                                                   !.longitude = parsed.value.longitude],
                       step |-> Fetches("points",
                                    PointsUrl(parsed.value.latitude, parsed.value.longitude))]
        ELSE IF name = GetForecastByName
        THEN LET parsed == LocationArgumentsSchema(args)
             IN  IF ~parsed.ok
                 THEN [locals |-> NoLocals, step |-> Try(Throws(parsed.error))]
                 ELSE [locals |-> [NoLocals EXCEPT !.location = parsed.value.location],
                       step |-> Fetches("geocode", GeocodeUrl(parsed.value.location.v))]
        ELSE [locals |-> NoLocals,
              step |-> Try(Throws(PlainError(<<"U","n","k","n","o","w","n"," ","t","o","o","l",":"," ">> \o name)))]

\* the handler from the return of getForecastForCoordinates to its end
HandlerEnd(request, locals, forecast) ==
    IF forecast.kind # "return" THEN [locals |-> locals, step |-> Try(forecast)]
    ELSE [locals |-> [locals EXCEPT !.forecast = forecast.value],
          step |-> IF request.params.name = GetForecast
                   THEN Returns([content |-> forecast.value.content])
                   ELSE Returns([content |->
                            WithLocation(locals.geocodingResult,
                                         forecast.value).content])]

\* the handler from the return of geocodeLocation to its next await
HandlerAfterGeocode(locals, geocoded) ==
    IF geocoded.kind = "throw" THEN [locals |-> locals, step |-> Try(geocoded)]
    ELSE IF ~Truthy(geocoded.value)
    THEN [locals |-> locals,
          step |-> Returns(TextResult(CouldNotFind(locals.location)))]
    ELSE LET latitude == ParseFloat(Get(geocoded.value, "lat"))
             longitude == ParseFloat(Get(geocoded.value, "lon"))
         IN  [locals |-> [locals EXCEPT !.geocodingResult = geocoded.value,
                                        !.latitude = latitude,
                                        !.longitude = longitude],
              step |-> Fetches("points", PointsUrl(latitude, longitude))]

Awaiting(api) ==
    /\ variant = "weather"
    /\ wcall.pc = "fetch"
    /\ wcall.step.api = api

Settle(response) ==
    [fetches EXCEPT ![Len(fetches)] = SettledWith(fetches[Len(fetches)], response)]

InitWeather ==
    /\ variant = "weather"
    /\ calls = <<>>
    /\ listed = NotListed
    /\ Serving
    /\ NoWeather

\* a call-tool request arrives
WeatherCallTool(request) ==
    /\ variant = "weather"
    /\ wcall.pc = "idle"
    /\ LET start == HandlerStart(request)
       IN  /\ wcall' = Invocation(request, start.locals, start.step)
           /\ fetches' = AfterStep(fetches, start.step)
    /\ UNCHANGED <<variant, echoVars, startupVars>>

\* the fetch of geocodeLocation settles
GeocodeResponds(response) ==
    /\ Awaiting("geocode")
    /\ LET next == HandlerAfterGeocode(wcall.locals, GeocodeLocation(response))
       IN  /\ wcall' = Invocation(wcall.request, next.locals, next.step)
           /\ fetches' = AfterStep(Settle(response), next.step)
    /\ UNCHANGED <<variant, echoVars, startupVars>>

\* the fetch of the grid point in getForecastForCoordinates settles
PointsResponds(response) ==
    /\ Awaiting("points")
    /\ LET pointsData == MakeNWSRequest(response)
           after == IF pointsData.kind = "throw" THEN pointsData
                    ELSE AfterPoints(wcall.locals.latitude, wcall.locals.longitude,
                                     pointsData.value)
           next == IF after.kind = "fetch"
                   THEN [locals |-> wcall.locals, step |-> after]
                   ELSE HandlerEnd(wcall.request, wcall.locals, after)
       IN  /\ wcall' = Invocation(wcall.request, next.locals, next.step)
           /\ fetches' = AfterStep(Settle(response), next.step)
    /\ UNCHANGED <<variant, echoVars, startupVars>>

\* the fetch of the forecast in getForecastForCoordinates settles
ForecastResponds(response) ==
    /\ Awaiting("forecast")
    /\ LET forecastData == MakeNWSRequest(response)
           after == IF forecastData.kind = "throw" THEN forecastData
                    ELSE AfterForecast(wcall.locals.latitude, wcall.locals.longitude,
                                       forecastData.value)
           next == HandlerEnd(wcall.request, wcall.locals, after)
       IN  /\ wcall' = Invocation(wcall.request, next.locals, next.step)
           /\ fetches' = AfterStep(Settle(response), next.step)
    /\ UNCHANGED <<variant, echoVars, startupVars>>

NextWeather ==
    \/ \E request \in WeatherRequests : WeatherCallTool(request)
    \/ \E response \in Responses : GeocodeResponds(response)
    \/ \E response \in Responses : PointsResponds(response)
    \/ \E response \in Responses : ForecastResponds(response)

SpecWeather == InitWeather /\ [][NextWeather]_vars

-----------------------------------------------------------------------------
(* Vocabulary of the properties *)

\* sub occurs in s as a contiguous substring
Contains(s, sub) ==
    \E k \in 0..(Len(s) - Len(sub)) : SubSeq(s, k + 1, k + Len(sub)) = sub

AccessDenied == <<"A","c","c","e","s","s"," ","d","e","n","i","e","d">>

Finished == {i \in 1..Len(calls) : calls[i].pc = "done"}

ArgumentsOf(i) == calls[i].request.params.arguments

\* the request of call i carries a message field that is a string
HasStringMessage(i) ==
    /\ ArgumentsOf(i).t = "object"
    /\ ArgumentsOf(i).message.t = "string"

\* the request of call i has no message field
HasNoMessageField(i) ==
    \/ ArgumentsOf(i).t = "undefined"
    \/ /\ ArgumentsOf(i).t = "object"
       /\ ArgumentsOf(i).message.t = "undefined"

\* the handler returned exactly one content block, of type "text", with text txt
ReturnedText(i, txt) ==
    /\ calls[i].outcome.kind = "return"
    /\ Len(calls[i].outcome.content) = 1
    /\ calls[i].outcome.content[1].type = "text"
    /\ calls[i].outcome.content[1].text = txt

Resolved(i) == calls[i].verified.kind = "resolved"
Rejected(i) == calls[i].verified.kind = "rejected"

\* the text the caller of a finished call sees: the text of the returned
\* content block, or the message of the raised error
VisibleText(i) ==
    IF calls[i].outcome.kind = "return"
    THEN ToString(calls[i].outcome.content[1].text)
    ELSE ToString(calls[i].outcome.error.message)

-----------------------------------------------------------------------------
\* C1: on the open server, a call-tool request whose arguments carry a
\* non-empty string message m is answered with exactly one content block of
\* type "text" whose text is m.
C1_OpenEchoesNonEmptyMessage ==
    variant = "open" =>
        \A i \in Finished :
            (HasStringMessage(i) /\ ArgumentsOf(i).message.v # <<>>)
                => ReturnedText(i, ArgumentsOf(i).message)

C1_Witness ==
    /\ variant = "open"
    /\ \E i \in Finished :
        /\ HasStringMessage(i)
        /\ ArgumentsOf(i).message.v = <<"h","e","l","l","o">>
        /\ ReturnedText(i, Str(<<"h","e","l","l","o">>))

\* C2: on the open server, a call-tool request without a message field
\* (arguments absent, or arguments without message) is answered with the
\* text "No message provided".
C2_OpenDefaultsMissingMessage ==
    variant = "open" =>
        \A i \in Finished :
            HasNoMessageField(i) => ReturnedText(i, Str(NoMessageProvided))

C2_Witness ==
    /\ variant = "open"
    /\ \E i, j \in Finished :
        /\ ArgumentsOf(i).t = "undefined"
        /\ ArgumentsOf(j).t = "object"
        /\ ArgumentsOf(j).message.t = "undefined"
        /\ ReturnedText(i, Str(NoMessageProvided))
        /\ ReturnedText(j, Str(NoMessageProvided))

\* C3: on the open server, the response text is identical to the message for
\* every string message, the empty string included.
C3_OpenEchoesEveryMessage ==
    variant = "open" =>
        \A i \in Finished :
            HasStringMessage(i) => ReturnedText(i, ArgumentsOf(i).message)

\* C4: on the gated server, a call whose verifier rejected is answered with a
\* response text that contains "Access denied" and does not contain the
\* request's message.
C4_DenialIsResponseTextWithoutMessage ==
    variant = "gated" =>
        \A i \in Finished :
            Rejected(i) =>
                /\ calls[i].outcome.kind = "return"
                /\ Contains(VisibleText(i), AccessDenied)
                /\ (HasStringMessage(i) /\ ArgumentsOf(i).message.v # <<>>)
                       => ~Contains(VisibleText(i), ArgumentsOf(i).message.v)

\* C5: on the gated server, when the verifier rejects, the handler completes
\* normally (raises nothing) and what the caller sees holds none of the
\* verifier's error message.
C5_DenialReturnsGenericText ==
    variant = "gated" =>
        \A i \in Finished :
            Rejected(i) =>
                /\ calls[i].outcome.kind # "throw"
                /\ LET detail == OptMessage(calls[i].verified.error)
                   IN  Truthy(detail) => ~Contains(VisibleText(i), detail.v)

\* C6: on the gated server, two calls with the same request whose verifier
\* rejected, for whatever cause, have the same outcome.
C6_DenialIndependentOfCause ==
    variant = "gated" =>
        \A i, j \in Finished :
            (Rejected(i) /\ Rejected(j) /\ calls[i].request = calls[j].request)
                => calls[i].outcome = calls[j].outcome

\* C7: on the gated server, a call whose verifier resolved with
\* (signerAddress, balance) and whose message is a non-empty string m is
\* answered with one text block
\* "Message from <signerAddress> (balance: <balance>): <m>".
C7_GatedSuccessText ==
    variant = "gated" =>
        \A i \in Finished :
            (Resolved(i) /\ HasStringMessage(i) /\ ArgumentsOf(i).message.v # <<>>)
                => LET r == calls[i].verified.result
                   IN  ReturnedText(i,
                            Str(<<"M","e","s","s","a","g","e"," ","f","r","o","m"," ">>
                                \o r.signerAddress.v
                                \o <<" ","(","b","a","l","a","n","c","e",":"," ">>
                                \o BigIntToString(r.balance.n)
                                \o <<")",":"," ">>
                                \o ArgumentsOf(i).message.v))

\* "Message from 0xB2 (balance: 120): hello"
C7_Witness ==
    /\ variant = "gated"
    /\ \E i \in Finished :
        /\ Resolved(i)
        /\ ArgumentsOf(i).t = "object"
        /\ ArgumentsOf(i).message = Str(<<"h","e","l","l","o">>)
        /\ calls[i].verified.result.balance.n = 120
        /\ ReturnedText(i,
              Str(<<"M","e","s","s","a","g","e"," ","f","r","o","m"," ",
                    "0","x","B","2"," ","(","b","a","l","a","n","c","e",":"," ",
                    "1","2","0",")",":"," ","h","e","l","l","o">>))

\* C8: on the gated server, a call has a returned response only when its own
\* verifier call resolved; while the verifier is pending, and after it
\* rejected, the call has none.
C8_EchoOnlyAfterVerification ==
    variant = "gated" =>
        \A i \in 1..Len(calls) :
            /\ calls[i].outcome.kind = "return" => (calls[i].pc = "done" /\ Resolved(i))
            /\ calls[i].pc = "await" => calls[i].outcome.kind = "pending"
            /\ Rejected(i) => calls[i].outcome.kind # "return"

\* two calls with the same request, one rejected and one resolved, and only
\* the resolved one has a response
C8_Witness ==
    /\ variant = "gated"
    /\ \E i, j \in Finished :
        /\ calls[i].request = calls[j].request
        /\ Rejected(i) /\ calls[i].outcome.kind = "throw"
        /\ Resolved(j) /\ calls[j].outcome.kind = "return"

\* C9: on either server, a call-tool request naming a tool other than "echo"
\* is not answered as a successful echo, and the handler raises nothing.
C9_UnknownToolIsNotEchoed ==
    \A i \in Finished :
        calls[i].request.params.name # "echo" =>
            /\ calls[i].outcome.kind # "throw"
            /\ (HasStringMessage(i) /\ ArgumentsOf(i).message.v # <<>>)
                   => ~(/\ calls[i].outcome.kind = "return"
                        /\ Contains(VisibleText(i), ArgumentsOf(i).message.v))

\* the descriptors a list-tools result holds: one tool "echo" with the
\* variant's required fields
DeclaredDescriptors(result) ==
    /\ Len(result.tools) = 1
    /\ result.tools[1].name = "echo"
    /\ {result.tools[1].inputSchema.required[k] :
            k \in 1..Len(result.tools[1].inputSchema.required)}
         = (IF variant = "open" THEN {"message"}
            ELSE {"message", "strawberry_signature"})

\* C10: whatever requests were served, a list-tools request can be answered
\* (it has no error outcome), its result is the one declared tool "echo",
\* whose required fields are {message} on the open server and
\* {message, strawberry_signature} on the gated server, and answering it
\* changes nothing but that result.
C10_ListToolsStatic ==
    /\ [](listed # NotListed => DeclaredDescriptors(listed))
    /\ [](ENABLED ListTools)
    /\ [][ListTools => (DeclaredDescriptors(listed') /\ UNCHANGED <<variant, calls>>)]_vars

\* the gated server lists its tool after a call was denied and another
\* answered
C10_Witness ==
    /\ variant = "gated"
    /\ listed # NotListed
    /\ \E i, j \in Finished :
        calls[i].outcome.kind = "throw" /\ calls[j].outcome.kind = "return"

-----------------------------------------------------------------------------
\* s ends with suffix
EndsWith(s, suffix) ==
    /\ Len(suffix) <= Len(s)
    /\ SubSeq(s, Len(s) - Len(suffix) + 1, Len(s)) = suffix

\* s starts with prefix
StartsWith(s, prefix) ==
    /\ Len(prefix) <= Len(s)
    /\ SubSeq(s, 1, Len(prefix)) = prefix

HasNonEmptyMessage(i) == HasStringMessage(i) /\ ArgumentsOf(i).message.v # <<>>

\* C12: however the invocations interleave, (a) two invocations with the
\* same request and the same verifier result have the same outcome, (b) the
\* text returned to an invocation ends with that invocation's own message and,
\* on the gated server, names the signer its own verifier call returned, and
\* (c) a step changes the record of one invocation at most and never that of
\* a finished one.
C12_Own ==
    /\ \A i, j \in Finished :
          (calls[i].request = calls[j].request /\ calls[i].verified = calls[j].verified)
              => calls[i].outcome = calls[j].outcome
    /\ \A i \in Finished :
          (calls[i].outcome.kind = "return" /\ HasNonEmptyMessage(i))
              => /\ EndsWith(VisibleText(i), ArgumentsOf(i).message.v)
                 /\ Resolved(i) =>
                        Contains(VisibleText(i),
                                 calls[i].verified.result.signerAddress.v)

C12_Isolated ==
    \A j \in 1..Len(calls) :
        /\ calls[j].pc = "done" => calls'[j] = calls[j]
        /\ \A k \in 1..Len(calls) :
              (calls'[j] # calls[j] /\ calls'[k] # calls[k]) => j = k

C12_InvocationsIndependent == [](C12_Own) /\ [][C12_Isolated]_vars

\* the second invocation was answered, with its own message and signer,
\* while the first is still suspended in the verifier with another message
C12_Witness ==
    /\ variant = "gated"
    /\ Len(calls) = 2
    /\ calls[1].pc = "await"
    /\ HasNonEmptyMessage(1)
    /\ calls[2].pc = "done"
    /\ HasNonEmptyMessage(2)
    /\ ArgumentsOf(1).message # ArgumentsOf(2).message
    /\ Resolved(2)
    /\ EndsWith(VisibleText(2), ArgumentsOf(2).message.v)

\* C13: on the gated server every call-tool invocation has called the
\* verifier exactly once, with the full request; a rejection is followed by
\* no further call, and the handler has finished once the verifier settled.
C13_VerifierCalledOnce ==
    variant = "gated" =>
        \A i \in 1..Len(calls) :
            /\ calls[i].verifierCalls = <<calls[i].request>>
            /\ (Resolved(i) \/ Rejected(i)) <=> calls[i].pc = "done"
            /\ calls[i].pc = "done" => calls[i].outcome.kind \in {"return", "throw"}

C13_Witness ==
    /\ variant = "gated"
    /\ \E i \in Finished :
        /\ Rejected(i)
        /\ calls[i].outcome.kind = "throw"
        /\ Len(calls[i].verifierCalls) = 1
        /\ calls[i].verifierCalls[1].params.arguments.t = "object"

-----------------------------------------------------------------------------
(* Startup *)

\* the steps the process lifecycle allows
LifecycleSteps ==
    {<<"start", "wrapped">>, <<"wrapped", "connected">>,
     <<"connected", "binding">>, <<"binding", "listening">>,
     <<"start", "terminated">>, <<"wrapped", "terminated">>,
     <<"connected", "terminated">>, <<"binding", "terminated">>,
     <<"listening", "terminated">>}

\* C11: in both variants, (a) once a startup statement has thrown or the port
\* could not be bound, the process has exited with a non-zero status, (b) a
\* request is only ever served by a process in which nothing failed, (c) the
\* process moves only forward through its lifecycle, never out of
\* "terminated" and never from "listening" back to a startup phase, and
\* (d) a terminated process serves no request and builds no server.
C11_FailureExits ==
    failure # "none" =>
        /\ phase = "terminated"
        /\ exit.exited
        /\ exit.code # 0

C11_ServedUnfailed ==
    served # <<>> => (failure = "none" /\ phase = "listening" /\ ~exit.exited)

C11_Lifecycle ==
    /\ phase' # phase => <<phase, phase'>> \in LifecycleSteps
    /\ phase = "terminated" => (served' = served /\ servers' = servers)

C11_StartupFailureTerminates ==
    /\ [](C11_FailureExits /\ C11_ServedUnfailed)
    /\ [][C11_Lifecycle]_vars

\* the open server's app.listen threw inside main() and the process exited
\* with status 1
C11_Witness ==
    /\ variant = "open"
    /\ failure = "listen"
    /\ phase = "terminated"
    /\ exit = [exited |-> TRUE, code |-> 1]
    /\ served = <<>>

\* C14: on the gated server createServer accepts every environment: each
\* Server it has configured has a verifier whose tokenAddress is the value of
\* LOCALHOST_TOKEN, undefined when that is not set, whose chain id is 1 when
\* STRAWBERRY_NETWORK_ID is not set, and whose RPC url is
\* "https://sepolia.base.org" when RPC_URL is not set; a returned Server has
\* both handlers; and the process exits during startup only because a
\* startup statement threw or the port could not be bound.
C14_ConfigurationNotValidated ==
    variant = "gated" =>
        /\ \A i \in 1..Len(servers) :
              servers[i].pc # "created" =>
                  /\ servers[i].verifier
                  /\ servers[i].verifierOptions.tokenAddress = env.LOCALHOST_TOKEN
                  /\ env.STRAWBERRY_NETWORK_ID = Undefined =>
                        servers[i].verifierOptions.domain.chainId
                            = [t |-> "number", n |-> 1]
                  /\ env.RPC_URL = Undefined =>
                        servers[i].rpcUrl =
                            Str(<<"h","t","t","p","s",":","/","/","s","e","p","o","l","i","a",
                                  ".","b","a","s","e",".","o","r","g">>)
                  /\ env.RPC_URL # Undefined => servers[i].rpcUrl = env.RPC_URL
                  /\ servers[i].pc = "returned" =>
                        servers[i].handlers = <<"tools/list", "tools/call">>
        /\ exit.exited => failure \in {"strawberry", "connect", "listen", "bind"}

\* no variable is set, and the gated server listens and has been sent a
\* call-tool request
C14_Witness ==
    /\ variant = "gated"
    /\ env = [RPC_URL |-> Undefined, STRAWBERRY_NETWORK_ID |-> Undefined,
              LOCALHOST_TOKEN |-> Undefined]
    /\ phase = "listening"
    /\ failure = "none"
    /\ \E k \in 1..Len(served) :
          /\ served[k].method = "tools/call"
          /\ served[k].handled
          /\ servers[served[k].server].verifier
          /\ servers[served[k].server].verifierOptions.tokenAddress = Undefined
          /\ servers[served[k].server].verifierOptions.domain.chainId.n = 1

\* C17: the open server, which the container's start script runs, listens
\* on a port between 3000 and 3100 that no other process holds.
C17_SelectsFreePort ==
    (variant = "open" /\ listenPort # <<>>) =>
        /\ listenPort[1] \in 3000..3100
        /\ listenPort[1] \notin occupied

C18_HandlersOf(server) ==
    CASE server.pc \in {"created", "configured"} -> <<>>
      [] server.pc = "listRegistered" -> <<"tools/list">>
      [] server.pc \in {"callRegistered", "returned"} -> <<"tools/list", "tools/call">>
      [] OTHER -> <<"unexpected">>

C18_Registered ==
    /\ \A i \in 1..Len(servers) : servers[i].handlers = C18_HandlersOf(servers[i])
    /\ \A k \in 1..Len(served) :
          /\ phase = "listening"
          /\ servers[served[k].server].pc = "returned"
          /\ served[k].handled
    /\ listenPort # <<>> => phase \in {"binding", "listening", "terminated"}

C18_StatementOrder ==
    /\ phase' = "wrapped" => phase \in {"start", "wrapped"}
    /\ phase' = "connected" => phase \in {"wrapped", "connected"}
    /\ phase' = "binding" => phase \in {"connected", "binding"}
    /\ phase' = "listening" => phase \in {"binding", "listening"}
    /\ served' # served => (phase = "listening" /\ ~Building)

-----------------------------------------------------------------------------
(* The weather example *)

WeatherName == wcall.request.params.name
WeatherCallArguments == wcall.request.params.arguments
WeatherCalled == wcall.pc # "idle"
WeatherDone == wcall.pc = "done"

\* the handler returned exactly one content block, of type text
WeatherReturnedBlock ==
    /\ wcall.pc = "done"
    /\ wcall.step.kind = "return"
    /\ Len(wcall.step.value.content) = 1
    /\ wcall.step.value.content[1].type = "text"
    /\ wcall.step.value.content[1].text.t = "string"

WeatherText == wcall.step.value.content[1].text.v

\* x is no number between lo and hi
C15_NotInRange(x, lo, hi) == x.t # "number" \/ x.n < lo \/ x.n > hi

\* the arguments of the request do not satisfy the schema of its tool
C15_InvalidArguments ==
    \/ /\ WeatherName = GetForecast
       /\ \/ WeatherCallArguments.t # "object"
          \/ C15_NotInRange(WeatherCallArguments.latitude, -90, 90)
          \/ C15_NotInRange(WeatherCallArguments.longitude, -180, 180)
    \/ /\ WeatherName = GetForecastByName
       /\ \/ WeatherCallArguments.t # "object"
          \/ WeatherCallArguments.location.t # "string"
          \/ WeatherCallArguments.location.v = <<>>

\* C15: for either tool, arguments that fail schema validation (missing
\* field, wrong type, latitude outside [-90, 90], longitude outside
\* [-180, 180], empty location) make the handler return a text content block
\* that starts with "Invalid arguments: ", and no HTTP request is made.
C15_InvalidArgumentsReturnText ==
    (WeatherCalled /\ C15_InvalidArguments) =>
        /\ WeatherReturnedBlock
        /\ StartsWith(WeatherText, <<"I","n","v","a","l","i","d"," ","a","r","g","u","m","e","n","t","s",":"," ">>)
        /\ fetches = <<>>

C15_Witness ==
    /\ WeatherDone
    /\ WeatherName = GetForecast
    /\ WeatherCallArguments = WeatherArgs(Num(91), Num(181), Undefined)
    /\ WeatherReturnedBlock
    /\ WeatherText = <<"I","n","v","a","l","i","d"," ","a","r","g","u","m","e","n","t","s",":"," ","l","a","t","i","t","u","d","e",":"," ","N","u","m","b","e","r"," ","m","u","s","t"," ","b","e"," ","l","e","s","s"," ","t","h","a","n"," ","o","r"," ","e","q","u","a","l"," ","t","o"," ","9","0",","," ","l","o","n","g","i","t","u","d","e",":"," ","N","u","m","b","e","r"," ","m","u","s","t"," ","b","e"," ","l","e","s","s"," ","t","h","a","n"," ","o","r"," ","e","q","u","a","l"," ","t","o"," ","1","8","0">>
    /\ fetches = <<>>

\* the HTTP call failed: a network error or a status that is not OK
C16_Failed(fetch) ==
    /\ fetch.settled
    /\ \/ fetch.response.t = "reject"
       \/ fetch.response.t = "response" /\ ~fetch.response.ok

\* what the caller of the failed call tells the user
C16_Explanation(api) ==
    CASE api = "geocode" -> CouldNotFind(wcall.locals.location)
      [] api = "points" ->
            FailedGridPoint(wcall.locals.latitude, wcall.locals.longitude)
      [] api = "forecast" -> FailedForecast

\* C16: every failed HTTP call (network error or non-OK status) of
\* makeNWSRequest and geocodeLocation ends the invocation with a returned
\* text content block that carries the caller's explanation of that failure;
\* the handler sends no further request and throws nothing.
C16_UpstreamFailureReturnsText ==
    \A k \in 1..Len(fetches) :
        C16_Failed(fetches[k]) =>
            /\ k = Len(fetches)
            /\ WeatherReturnedBlock
            /\ EndsWith(WeatherText, C16_Explanation(fetches[k].api))

C16_Witness ==
    /\ WeatherDone
    /\ WeatherName = GetForecast
    /\ Len(fetches) = 2
    /\ fetches[2].api = "forecast"
    /\ fetches[2].settled
    /\ fetches[2].response = HttpResponse(500, InvalidJson)
    /\ WeatherReturnedBlock
    /\ WeatherText = FailedForecast

\* C19: a request whose name is neither "get-forecast" nor
\* "get-forecast-by-name" returns the text "Error: Unknown tool: <name>";
\* for every tool name and every arguments the handler never throws: every
\* invocation that ended returned one text content block.
C19_HandlerNeverThrows ==
    /\ WeatherCalled => wcall.step.kind \in {"fetch", "return"}
    /\ WeatherDone => WeatherReturnedBlock
    /\ (WeatherCalled /\ WeatherName \notin {GetForecast, GetForecastByName}) =>
            /\ WeatherReturnedBlock
            /\ WeatherText = <<"E","r","r","o","r",":"," ","U","n","k","n","o","w","n"," ","t","o","o","l",":"," ">> \o WeatherName
            /\ fetches = <<>>

C19_Witness ==
    /\ WeatherDone
    /\ WeatherName = GetAlerts
    /\ WeatherReturnedBlock
    /\ WeatherText = <<"E","r","r","o","r",":"," ","U","n","k","n","o","w","n"," ","t","o","o","l",":"," ","g","e","t","-","a","l","e","r","t","s">>

\* the geocoder answered with a result list whose first entry is an object
C20_Found(fetch) ==
    /\ fetch.api = "geocode"
    /\ fetch.settled
    /\ fetch.response.t = "response"
    /\ fetch.response.ok
    /\ fetch.response.json.t = "array"
    /\ fetch.response.json.items # <<>>
    /\ fetch.response.json.items[1].t = "object"

\* C20: for get-forecast-by-name the first request is the geocoding request,
\* and a request to the weather service is sent only after it yielded a
\* result; when it yields none (failure or empty result list) the handler
\* returns "Could not find coordinates for location: <location>" and sends
\* nothing to the weather service; when it yields one, the text of the
\* forecast that getForecastForCoordinates returned is returned with the
\* prefix "Location: <display_name>" and an empty line.
C20_GeocodeBeforeForecast ==
    (WeatherCalled /\ WeatherName = GetForecastByName) =>
        /\ \A k \in 1..Len(fetches) :
                (fetches[k].api = "geocode") = (k = 1)
        /\ Len(fetches) > 1 => C20_Found(fetches[1])
        /\ (fetches # <<>> /\ fetches[1].settled /\ ~C20_Found(fetches[1])) =>
                /\ WeatherReturnedBlock
                /\ WeatherText = <<"C","o","u","l","d"," ","n","o","t"," ","f","i","n","d"," ","c","o","o","r","d","i","n","a","t","e","s"," ","f","o","r"," ","l","o","c","a","t","i","o","n",":"," ">>
                                    \o WeatherCallArguments.location.v
                /\ Len(fetches) = 1
        /\ (WeatherDone /\ wcall.locals.forecast # Undefined) =>
                /\ C20_Found(fetches[1])
                /\ WeatherReturnedBlock
                /\ WeatherText =
                        <<"L","o","c","a","t","i","o","n",":"," ">>
                        \o ToString(Get(fetches[1].response.json.items[1],
                                        "display_name"))
                        \o <<"\n", "\n">>
                        \o wcall.locals.forecast.content[1].text.v

C20_Witness ==
    /\ WeatherDone
    /\ WeatherName = GetForecastByName
    /\ Len(fetches) = 3
    /\ fetches[1].url = <<"h","t","t","p","s",":","/","/","n","o","m","i","n","a","t","i","m",".","o","p","e","n","s","t","r","e","e","t","m","a","p",".","o","r","g","/","s","e","a","r","c","h","?","q","=","N","e","w","%","2","0","Y","o","r","k","%","2","C","%","2","0","N","Y","&","f","o","r","m","a","t","=","j","s","o","n","&","l","i","m","i","t","=","1">>
    /\ fetches[2].url = <<"h","t","t","p","s",":","/","/","a","p","i",".","w","e","a","t","h","e","r",".","g","o","v","/","p","o","i","n","t","s","/","4","2",".","0","0","0","0",",","-","7","1",".","0","0","0","0">>
    /\ fetches[3].url = ForecastUrl
    /\ WeatherReturnedBlock
    /\ StartsWith(WeatherText,
            <<"L","o","c","a","t","i","o","n",":"," ","B","o","s","t","o","n",","," ","M","a","s","s","a","c","h","u","s","e","t","t","s">> \o <<"\n", "\n">>
            \o <<"F","o","r","e","c","a","s","t"," ","f","o","r"," ","4","2",","," ","-","7","1",":">> \o <<"\n", "\n">> \o <<"T","o","n","i","g","h","t",":">>
            \o <<"\n">> \o <<"T","e","m","p","e","r","a","t","u","r","e",":"," ","5","4","Â","°","F">> \o <<"\n">>
            \o <<"W","i","n","d",":"," ","5"," ","m","p","h"," ","S","W">> \o <<"\n">> \o <<"C","l","e","a","r">> \o <<"\n">> \o <<"-","-","-">>)

\* the request was answered with an OK status and a body that holds a
\* forecast URL
C21_HasForecastUrl(fetch) ==
    /\ fetch.settled
    /\ fetch.response.t = "response"
    /\ fetch.response.ok
    /\ Truthy(OptGet(Get(fetch.response.json, "properties"), "forecast"))

\* the request failed: a network error or a status that is not OK
C21_Failed(fetch) ==
    /\ fetch.settled
    /\ \/ fetch.response.t = "reject"
       \/ fetch.response.t = "response" /\ ~fetch.response.ok

\* the request was answered with an OK status and a body whose period list
\* is empty
C21_NoPeriods(fetch) ==
    /\ fetch.settled
    /\ fetch.response.t = "response"
    /\ fetch.response.ok
    /\ fetch.response.json.t = "object"
    /\ OptGet(Get(fetch.response.json, "properties"), "periods") = Array(<<>>)

\* getForecastForCoordinates was called and has ended; it returned when the
\* handler's constant forecast holds its result
C21_Ended == WeatherDone /\ \E k \in 1..Len(fetches) : fetches[k].api = "points"
C21_Result == wcall.locals.forecast
C21_ResultIs(text) == C21_Result = TextResult(text)

\* the forecast request is sent only to the forecast URL of a grid point
\* request that succeeded
C21_ForecastAfterGridPoint ==
    \A k \in 1..Len(fetches) :
        fetches[k].api = "forecast" =>
            /\ k > 1
            /\ fetches[k - 1].api = "points"
            /\ C21_HasForecastUrl(fetches[k - 1])
            /\ fetches[k].url =
                 ToString(Get(Get(fetches[k - 1].response.json, "properties"),
                              "forecast"))

\* each of the four failures ends the operation with its own message
C21_OwnMessages ==
    LET last == fetches[Len(fetches)]
        gridPoint == FailedGridPoint(wcall.locals.latitude, wcall.locals.longitude)
    IN  C21_Ended =>
            /\ Cardinality({gridPoint, FailedForecastUrl, FailedForecast, NoPeriods}) = 4
            /\ (last.api = "points" /\ C21_Failed(last)) => C21_ResultIs(gridPoint)
            /\ (/\ last.api = "points"
                /\ last.response.t = "response"
                /\ last.response.ok
                /\ last.response.json.t \in {"object", "array"})
                    => C21_ResultIs(FailedForecastUrl)
            /\ (last.api = "forecast" /\ C21_Failed(last)) => C21_ResultIs(FailedForecast)
            /\ (last.api = "forecast" /\ C21_NoPeriods(last)) => C21_ResultIs(NoPeriods)

\* every outcome is a result of one content block of type text
C21_OneTextBlock ==
    C21_Ended =>
        /\ C21_Result # Undefined
        /\ Len(C21_Result.content) = 1
        /\ C21_Result.content[1].type = "text"

-----------------------------------------------------------------------------
(* The echo handlers, continued *)

\* the request of call i carries no message: arguments absent, or a message
\* that is absent, null or the empty string
C22_NoMessage(i) ==
    \/ ArgumentsOf(i).t = "undefined"
    \/ /\ ArgumentsOf(i).t = "object"
       /\ \/ ArgumentsOf(i).message.t \in {"undefined", "null"}
          \/ ArgumentsOf(i).message = Str(<<>>)

\* C22: on the gated server, a call whose verifier resolved and whose request
\* carries no message is answered with the text
\* "Message from <signerAddress> (balance: <balance>): No message provided";
\* a call whose verifier rejected, or has not settled, is never answered with
\* the default.
C22_GatedDefaultAfterVerification ==
    variant = "gated" =>
        \A i \in 1..Len(calls) :
            /\ (calls[i].pc = "done" /\ Resolved(i) /\ C22_NoMessage(i)) =>
                    LET r == calls[i].verified.result
                    IN  ReturnedText(i,
                            Str(<<"M","e","s","s","a","g","e"," ","f","r","o","m"," ">> \o r.signerAddress.v
                                \o <<" ","(","b","a","l","a","n","c","e",":"," ">> \o BigIntToString(r.balance.n)
                                \o <<")",":"," ","N","o"," ","m","e","s","s","a","g","e"," ","p","r","o","v","i","d","e","d">>))
            /\ ~Resolved(i) =>
                    /\ calls[i].outcome.kind # "return"
                    /\ calls[i].pc = "done" =>
                            ~Contains(VisibleText(i), <<"N","o"," ","m","e","s","s","a","g","e"," ","p","r","o","v","i","d","e","d">>)

\* "Message from 0xB2 (balance: 120): No message provided", for a request
\* without arguments, and a rejected request without arguments
C22_Witness ==
    /\ variant = "gated"
    /\ \E i, j \in Finished :
        /\ ArgumentsOf(i).t = "undefined"
        /\ Resolved(i)
        /\ ReturnedText(i, Str(<<"M","e","s","s","a","g","e"," ","f","r","o","m"," ","0","x","B","2"," ","(","b","a","l","a","n","c","e",":"," ","1","2","0",")",":"," ","N","o"," ","m","e","s","s","a","g","e"," ","p","r","o","v","i","d","e","d">>))
        /\ ArgumentsOf(j).t = "undefined"
        /\ Rejected(j)
        /\ calls[j].outcome.kind = "throw"

\* error?.message || "Unknown error", read off the value the verifier
\* rejected with
C23_MessageOf(error) ==
    IF error.t = "object" /\ error.message.t = "string" /\ error.message.v # <<>>
    THEN error.message.v
    ELSE <<"U","n","k","n","o","w","n"," ","e","r","r","o","r">>

C24_OpenHandlerTotal ==
    variant = "open" =>
        /\ \A i \in 1..Len(calls) :
                /\ calls[i].pc = "done"
                /\ calls[i].outcome.kind = "return"
                /\ Len(calls[i].outcome.content) = 1
                /\ calls[i].outcome.content[1].type = "text"
                /\ calls[i].verifierCalls = <<>>
                /\ calls[i].verified = NotVerified
        /\ \A i, j \in 1..Len(calls) :
                (/\ ArgumentsOf(i).t = "object"
                 /\ ArgumentsOf(j).t = "object"
                 /\ ArgumentsOf(i).message = ArgumentsOf(j).message)
                    => calls[i].outcome = calls[j].outcome

\* an undeclared tool without arguments, and an unsigned message
C24_Witness ==
    /\ variant = "open"
    /\ \E i, j \in Finished :
        /\ calls[i].request.params.name = "reverse"
        /\ ArgumentsOf(i).t = "undefined"
        /\ ReturnedText(i, Str(<<"N","o"," ","m","e","s","s","a","g","e"," ","p","r","o","v","i","d","e","d">>))
        /\ ArgumentsOf(j).t = "object"
        /\ ArgumentsOf(j).strawberry_signature = Undefined
        /\ ReturnedText(j, Str(<<"h","e","l","l","o">>))

====
